---- MODULE Spec2Model ----
(***************************************************************************)
(* A model of the hey-folio/agents repository: the nine task tools that    *)
(* proxy to the remote task API (tools/taskTools.ts, lib/convex.ts), the   *)
(* supervisor's two tools manage_tasks and handle_general (agent.ts, in    *)
(* its explicit-context and its global-context variants), and the          *)
(* supervisor's per-thread checkpointed state.                             *)
(*                                                                         *)
(* Strings are sequences of tokens, so that a template literal is a        *)
(* concatenation and "begins with" is a prefix test.  JSON text is the     *)
(* serialised object tagged json; any other string is tagged plain.        *)
(***************************************************************************)
EXTENDS Naturals, Sequences, FiniteSets, TLC

VARIABLES
    db,         \* remote task table: id -> stored task or NoTask
    nextId,     \* remote id allocator
    pc,         \* position of the task-tool invocation: idle, pending, done
    tool,       \* name of the tool being invoked
    input,      \* its validated argument object
    runtime,    \* its runtime (config.configurable) or NoRuntime
    sent,       \* the remote requests this invocation has issued, in order
    response,   \* the answer to the last of them, once it has arrived
    outcome,    \* how the invocation ended: a returned string or a throw
    agentVariant,   \* which agent.ts is loaded: "explicit" or "global" context
    sup,            \* the invocations of the supervisor's tools, by slot
    agentContext,   \* global variant: the module-level current context
    lastRequest,    \* the remote request a sub-agent tool issued last (none at
                    \* first), with the tenantId and userId of its invocation
    checkpoint,     \* the checkpointer: the stored state of each thread
    turn,           \* the supervisor invocation in progress, if any
    env,            \* process.env: the configuration values
    convexModule,   \* lib/convex.ts: "unloaded", "loaded", or "failed" at load
    transcript,     \* the messages a sub-agent invocation resolved with
    extracted       \* what a supervisor tool made of them, once it has

toolVars == <<pc, tool, input, runtime, sent, response, outcome>>

supVars == <<agentVariant, sup, agentContext, lastRequest>>

threadVars == <<checkpoint, turn>>

envVars == <<env, convexModule>>

traceVars == <<transcript, extracted>>

vars == <<db, nextId, pc, tool, input, runtime, sent, response, outcome,
          agentVariant, sup, agentContext, lastRequest, checkpoint, turn,
          env, convexModule, transcript, extracted>>

-----------------------------------------------------------------------------
(* Bounds *)

MaxTasks == 2       \* ids the remote allocates before create is refused
MaxInvocations == 2 \* supervisor-tool invocations that may overlap
MaxCalls == 1       \* tool calls the task sub-agent makes in one run
MaxTurns == 2       \* user turns on one thread
MaxLen == 5         \* messages in a sub-agent transcript

-----------------------------------------------------------------------------
(* JavaScript values *)

Undefined == "<undefined>"

Falsy(s) == s = Undefined \/ s = ""

\* a || b
OrElse(a, b) == IF Falsy(a) THEN b ELSE a

\* a ?? b
\* Mutant: a || b, an empty string gives way too
Nullish_falsy(a, b) == IF a = Undefined \/ a = "" THEN b ELSE a

Nullish(a, b) == IF a = Undefined THEN b ELSE a

NullValue == [null |-> TRUE]

StartsWith(s, p) == Len(s) >= Len(p) /\ SubSeq(s, 1, Len(p)) = p

PlainString(s) == [json |-> FALSE, s |-> s]

\* JSON.stringify of an object none of whose keys is undefined
JSONstringify(obj) == [json |-> TRUE, v |-> obj]

\* JSON.stringify of a flat object: keys whose value is undefined are dropped
DropUndefined(obj) ==
    [k \in {k \in DOMAIN obj : obj[k] # Undefined} |-> obj[k]]

Returned(value) == [kind |-> "return", value |-> value]

Thrown(err) == [kind |-> "throw", error |-> err]

NoOutcome == [kind |-> "none"]

-----------------------------------------------------------------------------
(* Inputs *)

Tenants == {"t1", "t2"}

NoRuntime == [has |-> FALSE]

\* A runtime with a usable context for each tenant, and every way the context
\* can be unusable: no runtime, or tenantId or userId undefined or empty
Runtimes ==
    {NoRuntime} \cup
    {[has |-> TRUE, configurable |-> [tenantId |-> t, userId |-> "u1", personId |-> "p1"]] :
        t \in Tenants \cup {Undefined, ""}} \cup
    {[has |-> TRUE, configurable |-> [tenantId |-> "t1", userId |-> u, personId |-> "p1"]] :
        u \in {Undefined, ""}}

IdStr(n) == ToString(n)

\* ids a caller may name: every id the remote can allocate, and one it never does
InputIds == {IdStr(n) : n \in 1..MaxTasks} \cup {"none"}

Queries == {"A"}

CreateInputs ==
    { [title |-> "A", description |-> Undefined, status |-> Undefined,
       label |-> Undefined, priority |-> Undefined],
      [title |-> "B", description |-> "", status |-> "backlog",
       label |-> Undefined, priority |-> "low"] }

UpdateInputs ==
    { [id |-> i, title |-> f.title, description |-> f.description,
       status |-> f.status, label |-> f.label, priority |-> f.priority] :
        i \in InputIds,
        f \in { [title |-> Undefined, description |-> "", status |-> "done",
                 label |-> Undefined, priority |-> Undefined],
                [title |-> "B", description |-> Undefined, status |-> Undefined,
                 label |-> "bug", priority |-> "high"] } }

\* what propose_task_update may be given: the same, and an emptied title
ProposeUpdateInputs ==
    UpdateInputs \cup
    { [id |-> i, title |-> "", description |-> Undefined, status |-> Undefined,
       label |-> Undefined, priority |-> Undefined] : i \in InputIds }

IdInputs == {[id |-> i] : i \in InputIds}

FormIds == {"f1", "f2"}

ServerTexts == {"Task not found"}

-----------------------------------------------------------------------------
(* tools/taskTools.ts: the runtime context *)

NullCtx == [null |-> TRUE]

Configurable(rt) ==
    IF rt.has THEN rt.configurable
    ELSE [tenantId |-> Undefined, userId |-> Undefined, personId |-> Undefined]

\* Mutant: only an undefined id counts as missing, an empty one passes
getContextFromRuntime_undefinedOnly(rt) ==
    LET tenantId == Configurable(rt).tenantId
        userId == Configurable(rt).userId
    IN  IF tenantId = Undefined \/ userId = Undefined THEN NullCtx
        ELSE [tenantId |-> tenantId, userId |-> userId]

getContextFromRuntime(rt) ==
    LET tenantId == Configurable(rt).tenantId
        userId == Configurable(rt).userId
    IN  IF Falsy(tenantId) \/ Falsy(userId) THEN NullCtx
        ELSE [tenantId |-> tenantId, userId |-> userId]

ContextError ==
    <<"Error", ": ", "Agent context not configured.",
      " Ensure tenantId and userId are passed in context.">>

-----------------------------------------------------------------------------
(* lib/convex.ts: the HTTP client *)

\* The environment of a configured process
ConfiguredEnv ==
    [ CONVEX_URL |-> "https://deployment.convex.cloud",
      CONVEX_DEPLOY_KEY |-> "deploy-key",
      OPENAI_API_KEY |-> "sk-key" ]

\* Every environment: each value set, empty or missing
Envs ==
    [ CONVEX_URL : {Undefined, "", ConfiguredEnv.CONVEX_URL},
      CONVEX_DEPLOY_KEY : {Undefined, "", ConfiguredEnv.CONVEX_DEPLOY_KEY},
      OPENAI_API_KEY : {Undefined, "", ConfiguredEnv.OPENAI_API_KEY} ]

CONVEX_URL == env.CONVEX_URL
CONVEX_DEPLOY_KEY == env.CONVEX_DEPLOY_KEY

\* Mutant: only CONVEX_URL is validated
convexModuleLoad_urlOnly(e) ==
    IF Falsy(e.CONVEX_URL)
    THEN Thrown(<<"CONVEX_URL environment variable is required">>)
    ELSE NoOutcome

\* The module's top-level validation: the Error it throws, or none
convexModuleLoad(e) ==
    IF Falsy(e.CONVEX_URL)
    THEN Thrown(<<"CONVEX_URL environment variable is required">>)
    ELSE IF Falsy(e.CONVEX_DEPLOY_KEY)
    THEN Thrown(<<"CONVEX_DEPLOY_KEY environment variable is required">>)
    ELSE NoOutcome

\* The fetch that convexRequest issues
convexFetch(functionPath, args, type) ==
    [ url |-> <<CONVEX_URL, "/api/", type>>,
      method |-> "POST",
      headers |-> [ContentType |-> "application/json",
                   Authorization |-> <<"Convex ", CONVEX_DEPLOY_KEY>>],
      type |-> type,
      body |-> [path |-> functionPath, args |-> DropUndefined(args), format |-> "json"] ]

\* Mutant: the server's text is left out of the thrown messages
convexRequest_dropsText(type, resp) ==
    IF resp.kind = "reject"
    THEN [threw |-> TRUE, isError |-> TRUE, message |-> resp.message]
    ELSE IF ~resp.ok
    THEN [threw |-> TRUE, isError |-> TRUE,
          message |-> <<"Convex ", type, " failed (", resp.status, ")">>]
    ELSE IF resp.body.status = "error"
    THEN [threw |-> TRUE, isError |-> TRUE, message |-> <<"Convex error">>]
    ELSE [threw |-> FALSE, value |-> resp.body.value]

\* What convexRequest makes of the response: the value, or the Error it throws
convexRequest(type, resp) ==
    IF resp.kind = "reject"
    THEN [threw |-> TRUE, isError |-> TRUE, message |-> resp.message]
    ELSE IF ~resp.ok
    THEN [threw |-> TRUE, isError |-> TRUE,
          message |-> <<"Convex ", type, " failed (", resp.status, "): ", resp.text>>]
    ELSE IF resp.body.status = "error"
    THEN [threw |-> TRUE, isError |-> TRUE,
          message |-> <<"Convex error: ", resp.body.errorMessage>>]
    ELSE [threw |-> FALSE, value |-> resp.body.value]

convexListTasks(args) == convexFetch("agent/tasks:list", args, "query")
convexGetTask(args) == convexFetch("agent/tasks:get", args, "query")
convexCreateTask(args) == convexFetch("agent/tasks:create", args, "mutation")
\* Mutant: update is sent as a query
convexUpdateTask_asQuery(args) == convexFetch("agent/tasks:update", args, "query")

convexUpdateTask(args) == convexFetch("agent/tasks:update", args, "mutation")

convexRemoveTask(args) == convexFetch("agent/tasks:remove", args, "mutation")
convexSearchTasks(args) == convexFetch("agent/tasks:search", args, "query")

\* error instanceof Error ? error.message : "Unknown error"
ErrorMessage(e) == IF e.isError THEN e.message ELSE <<"Unknown error">>

-----------------------------------------------------------------------------
(* tools/taskTools.ts: what each tool sends, and what it returns once        *)
(* convexRequest has returned or thrown                                      *)

listTasksRequest(ctx) ==
    convexListTasks([tenantId |-> ctx.tenantId, userId |-> ctx.userId])

\* Mutant: the catch block rethrows instead of returning a string
listTasks_rethrows(result) ==
    IF result.threw
    THEN Thrown(ErrorMessage(result))
    ELSE LET tasks == result.value
         IN  IF Len(tasks) = 0
             THEN Returned(PlainString(<<"No tasks found. The task list is empty.">>))
             ELSE Returned(JSONstringify(
                     [ text |-> <<"Found ", ToString(Len(tasks)), " task(s).">>,
                       __ui__ |-> [name |-> "TaskTable", props |-> [tasks |-> tasks]] ]))

\* Mutant: the table shows the first task only
listTasks_firstOnly(result) ==
    IF result.threw
    THEN Returned(PlainString(<<"Error", " listing tasks", ": ">> \o ErrorMessage(result)))
    ELSE LET tasks == result.value
         IN  IF Len(tasks) = 0
             THEN Returned(PlainString(<<"No tasks found. The task list is empty.">>))
             ELSE Returned(JSONstringify(
                     [ text |-> <<"Found ", ToString(Len(tasks)), " task(s).">>,
                       __ui__ |-> [name |-> "TaskTable",
                                   props |-> [tasks |-> <<tasks[1]>>]] ]))

listTasks(result) ==
    IF result.threw
    THEN Returned(PlainString(<<"Error", " listing tasks", ": ">> \o ErrorMessage(result)))
    ELSE LET tasks == result.value
         IN  IF Len(tasks) = 0
             THEN Returned(PlainString(<<"No tasks found. The task list is empty.">>))
             ELSE Returned(JSONstringify(
                     [ text |-> <<"Found ", ToString(Len(tasks)), " task(s).">>,
                       __ui__ |-> [name |-> "TaskTable", props |-> [tasks |-> tasks]] ]))

getTaskRequest(ctx, in) ==
    convexGetTask([tenantId |-> ctx.tenantId, userId |-> ctx.userId, id |-> in.id])

\* Mutant: the task itself is serialised, without the {text, __ui__} envelope
getTask_rawTask(in, result) ==
    IF result.threw
    THEN Returned(PlainString(<<"Error", " getting task", ": ">> \o ErrorMessage(result)))
    ELSE LET task == result.value
         IN  IF task = NullValue
             THEN Returned(PlainString(<<"Task not found with ID: ", in.id>>))
             ELSE Returned(JSONstringify(task))

getTask(in, result) ==
    IF result.threw
    THEN Returned(PlainString(<<"Error", " getting task", ": ">> \o ErrorMessage(result)))
    ELSE LET task == result.value
         IN  IF task = NullValue
             THEN Returned(PlainString(<<"Task not found with ID: ", in.id>>))
             ELSE Returned(JSONstringify(
                     [ text |-> <<"Task \"", task.title, "\" details.">>,
                       __ui__ |-> [name |-> "TaskCard", props |-> [task |-> task]] ]))

searchTasksRequest(ctx, in) ==
    convexSearchTasks([tenantId |-> ctx.tenantId, userId |-> ctx.userId, query |-> in.query])

\* Mutant: a single match is shown as a table too
searchTasks_alwaysTable(in, result) ==
    IF result.threw
    THEN Returned(PlainString(<<"Error", " searching tasks", ": ">> \o ErrorMessage(result)))
    ELSE LET tasks == result.value
         IN  IF Len(tasks) = 0
             THEN Returned(PlainString(<<"No tasks found matching \"", in.query, "\".">>))
             ELSE Returned(JSONstringify(
                     [ text |-> <<"Found ", ToString(Len(tasks)), " tasks matching \"",
                                  in.query, "\".">>,
                       __ui__ |-> [name |-> "TaskTable", props |-> [tasks |-> tasks]] ]))

searchTasks(in, result) ==
    IF result.threw
    THEN Returned(PlainString(<<"Error", " searching tasks", ": ">> \o ErrorMessage(result)))
    ELSE LET tasks == result.value
         IN  IF Len(tasks) = 0
             THEN Returned(PlainString(<<"No tasks found matching \"", in.query, "\".">>))
             ELSE IF Len(tasks) = 1
             THEN Returned(JSONstringify(
                     [ text |-> <<"Found task \"", tasks[1].title, "\".">>,
                       __ui__ |-> [name |-> "TaskCard", props |-> [task |-> tasks[1]]] ]))
             ELSE Returned(JSONstringify(
                     [ text |-> <<"Found ", ToString(Len(tasks)), " tasks matching \"",
                                  in.query, "\".">>,
                       __ui__ |-> [name |-> "TaskTable", props |-> [tasks |-> tasks]] ]))

createTaskRequest(ctx, in) ==
    convexCreateTask(
        [ tenantId |-> ctx.tenantId,
          userId |-> ctx.userId,
          title |-> in.title,
          description |-> in.description,
          status |-> OrElse(in.status, "todo"),
          label |-> OrElse(in.label, "feature"),
          priority |-> OrElse(in.priority, "medium") ])

\* Mutant: the card shows the input's values, without the defaults
createTask_rawCard(in, result) ==
    IF result.threw
    THEN Returned(PlainString(<<"Error", " creating task", ": ">> \o ErrorMessage(result)))
    ELSE LET taskId == result.value
         IN  Returned(JSONstringify(
                 [ text |-> <<"Task \"", in.title, "\" created successfully.">>,
                   __ui__ |->
                     [ name |-> "TaskCard",
                       props |->
                         [ task |-> [ _id |-> taskId,
                                      title |-> in.title,
                                      description |-> OrElse(in.description, ""),
                                      status |-> in.status,
                                      label |-> in.label,
                                      priority |-> in.priority ],
                           isSaved |-> TRUE ] ] ]))

createTask(in, result) ==
    IF result.threw
    THEN Returned(PlainString(<<"Error", " creating task", ": ">> \o ErrorMessage(result)))
    ELSE LET taskId == result.value
         IN  Returned(JSONstringify(
                 [ text |-> <<"Task \"", in.title, "\" created successfully.">>,
                   __ui__ |->
                     [ name |-> "TaskCard",
                       props |->
                         [ task |-> [ _id |-> taskId,
                                      title |-> in.title,
                                      description |-> OrElse(in.description, ""),
                                      status |-> OrElse(in.status, "todo"),
                                      label |-> OrElse(in.label, "feature"),
                                      priority |-> OrElse(in.priority, "medium") ],
                           isSaved |-> TRUE ] ] ]))

updateTaskRequest(ctx, in) ==
    convexUpdateTask(
        [ tenantId |-> ctx.tenantId, userId |-> ctx.userId, id |-> in.id,
          title |-> in.title, description |-> in.description, status |-> in.status,
          label |-> in.label, priority |-> in.priority ])

\* if (x) updates.push(`Label: ${x}`)
PushIf(updates, labelText, x) ==
    IF Falsy(x) THEN updates ELSE Append(updates, <<labelText, x>>)

RECURSIVE JoinLines(_)
\* updates.join("\n- ")
JoinLines(updates) ==
    IF Len(updates) = 0 THEN <<>>
    ELSE IF Len(updates) = 1 THEN updates[1]
    ELSE updates[1] \o <<"\n- ">> \o JoinLines(Tail(updates))

updateTask(in, result) ==
    IF result.threw
    THEN Returned(PlainString(<<"Error", " updating task", ": ">> \o ErrorMessage(result)))
    ELSE LET u1 == PushIf(<<>>, "Title: ", in.title)
             u2 == PushIf(u1, "Description: ", in.description)
             u3 == PushIf(u2, "Status: ", in.status)
             u4 == PushIf(u3, "Label: ", in.label)
             updates == PushIf(u4, "Priority: ", in.priority)
         IN  Returned(PlainString(
                 <<"Task ", in.id, " updated successfully!\nUpdated fields:\n- ">>
                 \o JoinLines(updates)))

deleteTaskRequest(ctx, in) ==
    convexRemoveTask([tenantId |-> ctx.tenantId, userId |-> ctx.userId, id |-> in.id])

deleteTask(in, result) ==
    IF result.threw
    THEN Returned(PlainString(<<"Error", " deleting task", ": ">> \o ErrorMessage(result)))
    ELSE Returned(PlainString(<<"Task ", in.id, " deleted successfully.">>))

\* propose_task awaits nothing: formId is crypto.randomUUID()
proposeTask(in, formId) ==
    Returned(JSONstringify(
        [ text |-> <<"Ready to create task \"", in.title, "\".">>,
          __ui__ |->
            [ name |-> "TaskEditForm",
              props |->
                [ formId |-> formId,
                  mode |-> "create",
                  initialValues |->
                    [ title |-> in.title,
                      description |-> OrElse(in.description, ""),
                      status |-> OrElse(in.status, "todo"),
                      label |-> OrElse(in.label, "feature"),
                      priority |-> OrElse(in.priority, "medium") ] ] ] ]))

proposeTaskUpdateRequest(ctx, in) ==
    convexGetTask([tenantId |-> ctx.tenantId, userId |-> ctx.userId, id |-> in.id])

proposeTaskUpdate(in, result, formId) ==
    IF result.threw
    THEN Returned(PlainString(
            <<"Error", " getting task for update", ": ">> \o ErrorMessage(result)))
    ELSE LET task == result.value
         IN  IF task = NullValue
             THEN Returned(PlainString(<<"Task not found with ID: ", in.id>>))
             ELSE Returned(JSONstringify(
                     [ text |-> <<"Ready to update task \"", task.title, "\".">>,
                       __ui__ |->
                         [ name |-> "TaskEditForm",
                           props |->
                             [ formId |-> formId,
                               mode |-> "edit",
                               taskId |-> in.id,
                               initialValues |->
                                 [ title |-> Nullish(in.title, task.title),
                                   description |->
                                       Nullish(Nullish(in.description, task.description), ""),
                                   status |-> Nullish(in.status, task.status),
                                   label |-> Nullish(in.label, task.label),
                                   priority |-> Nullish(in.priority, task.priority) ] ] ] ]))

\* Mutant: the proposal removes the task
proposeTaskDeleteRequest_removes(ctx, in) ==
    convexRemoveTask([tenantId |-> ctx.tenantId, userId |-> ctx.userId, id |-> in.id])

proposeTaskDeleteRequest(ctx, in) ==
    convexGetTask([tenantId |-> ctx.tenantId, userId |-> ctx.userId, id |-> in.id])

\* Mutant: a missing task is offered for deletion all the same
proposeTaskDelete_confirmsMissing(in, result, formId) ==
    IF result.threw
    THEN Returned(PlainString(
            <<"Error", " getting task for deletion", ": ">> \o ErrorMessage(result)))
    ELSE LET task == result.value
             taskTitle == IF task = NullValue THEN "unknown" ELSE task.title
         IN  Returned(JSONstringify(
                 [ text |-> <<"Confirm deletion of \"", taskTitle, "\".">>,
                   __ui__ |->
                     [ name |-> "TaskDeleteConfirm",
                       props |-> [ formId |-> formId,
                                   taskId |-> in.id,
                                   taskTitle |-> taskTitle ] ] ]))

proposeTaskDelete(in, result, formId) ==
    IF result.threw
    THEN Returned(PlainString(
            <<"Error", " getting task for deletion", ": ">> \o ErrorMessage(result)))
    ELSE LET task == result.value
         IN  IF task = NullValue
             THEN Returned(PlainString(<<"Task not found with ID: ", in.id>>))
             ELSE Returned(JSONstringify(
                     [ text |-> <<"Confirm deletion of \"", task.title, "\".">>,
                       __ui__ |->
                         [ name |-> "TaskDeleteConfirm",
                           props |-> [ formId |-> formId,
                                       taskId |-> in.id,
                                       taskTitle |-> task.title ] ] ]))

taskTools ==
    { "list_tasks", "get_task", "search_tasks", "create_task", "update_task",
      "delete_task", "propose_task", "propose_task_update", "propose_task_delete" }

\* The request the tool named t issues once it has a context
ToolRequest(t, ctx, in) ==
    CASE t = "list_tasks" -> listTasksRequest(ctx)
      [] t = "get_task" -> getTaskRequest(ctx, in)
      [] t = "search_tasks" -> searchTasksRequest(ctx, in)
      [] t = "create_task" -> createTaskRequest(ctx, in)
      [] t = "update_task" -> updateTaskRequest(ctx, in)
      [] t = "delete_task" -> deleteTaskRequest(ctx, in)
      [] t = "propose_task_update" -> proposeTaskUpdateRequest(ctx, in)
      [] t = "propose_task_delete" -> proposeTaskDeleteRequest(ctx, in)

\* What the tool named t returns once convexRequest has returned or thrown
ToolReturn(t, in, result, formId) ==
    CASE t = "list_tasks" -> listTasks(result)
      [] t = "get_task" -> getTask(in, result)
      [] t = "search_tasks" -> searchTasks(in, result)
      [] t = "create_task" -> createTask(in, result)
      [] t = "update_task" -> updateTask(in, result)
      [] t = "delete_task" -> deleteTask(in, result)
      [] t = "propose_task_update" -> proposeTaskUpdate(in, result, formId)
      [] t = "propose_task_delete" -> proposeTaskDelete(in, result, formId)

-----------------------------------------------------------------------------
(* The remote task API (agent/tasks:* on the Convex deployment)              *)

NoTask == [absent |-> TRUE]

Stored(id) == \E n \in 1..MaxTasks : IdStr(n) = id /\ db[n] # NoTask

TaskWithId(id) == db[CHOOSE n \in 1..MaxTasks : IdStr(n) = id]

RECURSIVE TasksUpTo(_, _)
\* the tenant's stored tasks with ids 1..n, in id order
TasksUpTo(n, tenantId) ==
    IF n = 0 THEN <<>>
    ELSE IF db[n] # NoTask /\ db[n].tenantId = tenantId
    THEN Append(TasksUpTo(n - 1, tenantId), db[n])
    ELSE TasksUpTo(n - 1, tenantId)

RemoteList(args) == TasksUpTo(MaxTasks, args.tenantId)

RemoteGet(args) ==
    IF Stored(args.id) /\ TaskWithId(args.id).tenantId = args.tenantId
    THEN TaskWithId(args.id)
    ELSE NullValue

RECURSIVE SubSeqs(_)
\* every subsequence of s
SubSeqs(s) ==
    IF Len(s) = 0 THEN {<<>>}
    ELSE LET rest == SubSeqs(Tail(s))
         IN  rest \cup {<<Head(s)>> \o r : r \in rest}

RemoteCreated(args) ==
    [ _id |-> IdStr(nextId),
      tenantId |-> args.tenantId,
      title |-> args.title,
      description |-> IF "description" \in DOMAIN args THEN args.description ELSE Undefined,
      status |-> args.status,
      label |-> args.label,
      priority |-> args.priority ]

\* db.patch: the fields present in args replace the stored ones
RemotePatched(task, args) ==
    [ k \in DOMAIN task |->
        IF k \in DOMAIN args /\ k \notin {"tenantId", "userId", "id"}
        THEN args[k] ELSE task[k] ]

Accepts(args) == Stored(args.id) /\ TaskWithId(args.id).tenantId = args.tenantId

SuccessResponse(value) ==
    [kind |-> "http", ok |-> TRUE, body |-> [status |-> "success", value |-> value]]

-----------------------------------------------------------------------------
(* One invocation of a task tool *)

NoInput == [none |-> TRUE]

NoResponse == [kind |-> "none"]

\* Up to the first await: the context check, then the request
Begin(t, in, rt) ==
    /\ convexModule = "loaded"
    /\ pc = "idle"
    /\ tool' = t
    /\ input' = in
    /\ runtime' = rt
    /\ response' = NoResponse
    /\ LET ctx == getContextFromRuntime(rt)
       IN  IF ctx = NullCtx
           THEN /\ outcome' = Returned(PlainString(ContextError))
                /\ sent' = <<>>
                /\ pc' = "done"
           ELSE /\ outcome' = NoOutcome
                /\ sent' = <<ToolRequest(t, ctx, in)>>
                /\ pc' = "pending"
    /\ UNCHANGED <<db, nextId, supVars, threadVars, envVars, traceVars>>

ListTasks == \E rt \in Runtimes : Begin("list_tasks", NoInput, rt)

GetTask == \E rt \in Runtimes, in \in IdInputs : Begin("get_task", in, rt)

SearchTasks ==
    \E rt \in Runtimes, q \in Queries : Begin("search_tasks", [query |-> q], rt)

CreateTask == \E rt \in Runtimes, in \in CreateInputs : Begin("create_task", in, rt)

UpdateTask == \E rt \in Runtimes, in \in UpdateInputs : Begin("update_task", in, rt)

DeleteTask == \E rt \in Runtimes, in \in IdInputs : Begin("delete_task", in, rt)

ProposeTaskUpdate ==
    \E rt \in Runtimes, in \in ProposeUpdateInputs :
        Begin("propose_task_update", in, rt)

ProposeTaskDelete ==
    \E rt \in Runtimes, in \in IdInputs : Begin("propose_task_delete", in, rt)

ProposeTask ==
    \E rt \in Runtimes, in \in CreateInputs, formId \in FormIds :
        /\ convexModule = "loaded"
        /\ pc = "idle"
        /\ tool' = "propose_task"
        /\ input' = in
        /\ runtime' = rt
        /\ response' = NoResponse
        /\ outcome' = IF getContextFromRuntime(rt) = NullCtx
                      THEN Returned(PlainString(ContextError))
                      ELSE proposeTask(in, formId)
        /\ sent' = <<>>
        /\ pc' = "done"
        /\ UNCHANGED <<db, nextId, supVars, threadVars, envVars, traceVars>>

\* The request did not produce a value: fetch rejected, the HTTP status was not
\* OK, or the body's status is "error"
Failed(resp) ==
    \/ resp.kind = "reject"
    \/ resp.kind = "http" /\ ~resp.ok
    \/ resp.kind = "http" /\ resp.ok /\ resp.body.status = "error"

\* Mutant: a failed request is sent once more before the tool gives up
Complete_retry(resp) ==
    IF Failed(resp) /\ Len(sent) < 2
    THEN /\ response' = resp
         /\ sent' = Append(sent, sent[Len(sent)])
         /\ UNCHANGED <<pc, tool, input, runtime, outcome>>
    ELSE \E formId \in FormIds :
            /\ response' = resp
            /\ outcome' = ToolReturn(tool, input,
                                     convexRequest(sent[Len(sent)].type, resp), formId)
            /\ pc' = "done"
            /\ UNCHANGED <<tool, input, runtime, sent>>

\* The pending request is answered and the tool runs to its return
Complete(resp) ==
    \E formId \in FormIds :
        /\ response' = resp
        /\ outcome' = ToolReturn(tool, input,
                                 convexRequest(sent[Len(sent)].type, resp), formId)
        /\ pc' = "done"
        /\ UNCHANGED <<tool, input, runtime, sent>>

FetchRejects ==
    /\ pc = "pending"
    /\ Complete([kind |-> "reject", message |-> <<"fetch failed">>])
    /\ UNCHANGED <<db, nextId, supVars, threadVars, envVars, traceVars>>

HttpError ==
    /\ pc = "pending"
    /\ \E text \in ServerTexts :
        Complete([kind |-> "http", ok |-> FALSE, status |-> "500", text |-> text])
    /\ UNCHANGED <<db, nextId, supVars, threadVars, envVars, traceVars>>

StatusError ==
    /\ pc = "pending"
    /\ \E text \in ServerTexts :
        Complete([kind |-> "http", ok |-> TRUE,
                  body |-> [status |-> "error", errorMessage |-> text]])
    /\ UNCHANGED <<db, nextId, supVars, threadVars, envVars, traceVars>>

QuerySucceeds ==
    /\ pc = "pending"
    /\ LET body == sent[Len(sent)].body
       IN  \/ /\ body.path = "agent/tasks:list"
              /\ Complete(SuccessResponse(RemoteList(body.args)))
           \/ /\ body.path = "agent/tasks:get"
              /\ Complete(SuccessResponse(RemoteGet(body.args)))
           \/ /\ body.path = "agent/tasks:search"
              /\ \E found \in SubSeqs(RemoteList(body.args)) :
                    Complete(SuccessResponse(found))
    /\ UNCHANGED <<db, nextId, supVars, threadVars, envVars, traceVars>>

MutationSucceeds ==
    /\ pc = "pending"
    /\ LET body == sent[Len(sent)].body
       IN  \/ /\ body.path = "agent/tasks:create"
              /\ nextId <= MaxTasks
              /\ db' = [db EXCEPT ![nextId] = RemoteCreated(body.args)]
              /\ nextId' = nextId + 1
              /\ Complete(SuccessResponse(IdStr(nextId)))
           \/ /\ body.path = "agent/tasks:update"
              /\ Accepts(body.args)
              /\ db' = [n \in 1..MaxTasks |->
                          IF IdStr(n) = body.args.id
                          THEN RemotePatched(db[n], body.args) ELSE db[n]]
              /\ UNCHANGED nextId
              /\ Complete(SuccessResponse(NullValue))
           \/ /\ body.path = "agent/tasks:remove"
              /\ Accepts(body.args)
              /\ db' = [n \in 1..MaxTasks |->
                          IF IdStr(n) = body.args.id THEN NoTask ELSE db[n]]
              /\ UNCHANGED nextId
              /\ Complete(SuccessResponse(NullValue))
    /\ UNCHANGED <<supVars, threadVars, envVars, traceVars>>

\* The caller takes the result; the next invocation may start
Finish ==
    /\ pc = "done"
    /\ pc' = "idle"
    /\ tool' = "none"
    /\ input' = NoInput
    /\ runtime' = NoRuntime
    /\ sent' = <<>>
    /\ response' = NoResponse
    /\ outcome' = NoOutcome
    /\ UNCHANGED <<db, nextId, supVars, threadVars, envVars, traceVars>>

-----------------------------------------------------------------------------
(* agent.ts: messages of a sub-agent transcript *)

HumanMessage(content) == [type |-> "human", content |-> content]

AIMessage(content, tool_calls) ==
    [type |-> "ai", content |-> content, tool_calls |-> tool_calls]

ToolMessage(name, content, tool_call_id) ==
    [type |-> "tool", name |-> name, content |-> content, tool_call_id |-> tool_call_id]

\* typeof content === "string" ? content : JSON.stringify(content)
ContentString(content) ==
    IF "blocks" \in DOMAIN content THEN JSONstringify(content) ELSE content

\* Mutant: the entries of one message come out in reverse order
RECURSIVE ToolCallEntries_reversed(_)
ToolCallEntries_reversed(tool_calls) ==
    IF Len(tool_calls) = 0 THEN <<>>
    ELSE ToolCallEntries_reversed(Tail(tool_calls)) \o
         <<[ type |-> "tool_call",
             name |-> Head(tool_calls).name,
             args |-> Head(tool_calls).args,
             id |-> Head(tool_calls).id ]>>

RECURSIVE ToolCallEntries(_)
ToolCallEntries(tool_calls) ==
    IF Len(tool_calls) = 0 THEN <<>>
    ELSE <<[ type |-> "tool_call",
             name |-> Head(tool_calls).name,
             args |-> Head(tool_calls).args,
             id |-> Head(tool_calls).id ]>> \o ToolCallEntries(Tail(tool_calls))

RECURSIVE extractSubagentMessages(_)
extractSubagentMessages(messages) ==
    IF Len(messages) = 0 THEN <<>>
    ELSE LET msg == Head(messages)
             calls == IF msg.type = "ai" /\ Len(msg.tool_calls) > 0
                      THEN ToolCallEntries(msg.tool_calls) ELSE <<>>
             results == IF msg.type = "tool"
                        THEN <<[ type |-> "tool_result",
                                 name |-> OrElse(msg.name, "unknown"),
                                 content |-> ContentString(msg.content),
                                 toolCallId |-> msg.tool_call_id ]>>
                        ELSE <<>>
         IN  calls \o results \o extractSubagentMessages(Tail(messages))

\* Mutant: the slice starts one message late
SliceInner_fromThird(messages) ==
    IF Len(messages) <= 3 THEN <<>> ELSE SubSeq(messages, 3, Len(messages) - 1)

\* result.messages.slice(1, -1)
SliceInner(messages) ==
    IF Len(messages) <= 2 THEN <<>> ELSE SubSeq(messages, 2, Len(messages) - 1)

\* JSON.parse(content) yields an object with a truthy __ui__
HasUi(content) ==
    /\ content.json
    /\ DOMAIN content.v \subseteq STRING
    /\ "__ui__" \in DOMAIN content.v
    /\ content.v.__ui__ # NullValue

\* Mutant: only the first UI payload is kept
RECURSIVE UiComponents_firstOnly(_)
UiComponents_firstOnly(subagentMessages) ==
    IF Len(subagentMessages) = 0 THEN <<>>
    ELSE LET msg == Head(subagentMessages)
         IN  IF msg.type = "tool_result" /\ HasUi(msg.content)
             THEN <<msg.content.v.__ui__>>
             ELSE UiComponents_firstOnly(Tail(subagentMessages))

RECURSIVE UiComponents(_)
UiComponents(subagentMessages) ==
    IF Len(subagentMessages) = 0 THEN <<>>
    ELSE LET msg == Head(subagentMessages)
             rest == UiComponents(Tail(subagentMessages))
         IN  IF msg.type = "tool_result" /\ HasUi(msg.content)
             THEN <<msg.content.v.__ui__>> \o rest
             ELSE rest

-----------------------------------------------------------------------------
(* agent.ts, explicit-context variant: manage_tasks and handle_general *)

ManageTasksContextError ==
    JSONstringify(
        [ result |-> <<"Error", ": ", "Agent context not configured.",
                       " Please ensure tenantId, userId, and personId are passed.">>,
          subagentMessages |-> <<>> ])

\* Mutant: personId is not checked
manageTasksContext_noPersonId(rt) ==
    LET c == Configurable(rt)
    IN  IF Falsy(c.tenantId) \/ Falsy(c.userId) THEN NullCtx
        ELSE [tenantId |-> c.tenantId, userId |-> c.userId, personId |-> c.personId]

\* The configurable manage_tasks passes on, or NullCtx when it returns the error
manageTasksContext(rt) ==
    LET c == Configurable(rt)
    IN  IF Falsy(c.tenantId) \/ Falsy(c.userId) \/ Falsy(c.personId) THEN NullCtx
        ELSE [tenantId |-> c.tenantId, userId |-> c.userId, personId |-> c.personId]

\* What manage_tasks returns once tasksAgent.invoke has resolved with messages
manageTasksResult(messages) ==
    LET lastMessage == messages[Len(messages)]
        responseText == ContentString(lastMessage.content)
        subagentMessages == extractSubagentMessages(SliceInner(messages))
        uiComponents == UiComponents(subagentMessages)
    IN  IF Len(uiComponents) > 0
        THEN JSONstringify([ result |-> responseText,
                             subagentMessages |-> subagentMessages,
                             subagent |-> "tasks",
                             __ui__ |-> uiComponents ])
        ELSE JSONstringify([ result |-> responseText,
                             subagentMessages |-> subagentMessages,
                             subagent |-> "tasks" ])

\* What handle_general returns once generalAgent.invoke has resolved
handleGeneralResult(messages) ==
    LET lastMessage == messages[Len(messages)]
        responseText == ContentString(lastMessage.content)
        subagentMessages == extractSubagentMessages(SliceInner(messages))
    IN  JSONstringify([ result |-> responseText,
                        subagentMessages |-> subagentMessages,
                        subagent |-> "general" ])

-----------------------------------------------------------------------------
(* agent.ts, global-context variant: manage_tasks and handle_general *)

GlobalContextError ==
    PlainString(<<"Error", ": ", "Agent context not configured.",
                  " Please ensure tenantId and userId are passed in the request config.">>)

\* The context manage_tasks sets, or NullCtx when it returns the error
manageTasksGlobalContext(rt) ==
    LET c == Configurable(rt)
    IN  IF Falsy(c.tenantId) \/ Falsy(c.userId) THEN NullCtx
        ELSE [tenantId |-> c.tenantId, userId |-> c.userId]

\* setAgentContext / clearAgentContext / the tools' read of the current context
setAgentContext(ctx) == agentContext' = ctx

clearAgentContext == agentContext' = NullCtx

getAgentContext == agentContext

\* The last message's content, as a string
lastMessageResult(messages) == ContentString(messages[Len(messages)].content)

-----------------------------------------------------------------------------
(* Invocations of the supervisor's tools; they overlap at their awaits *)

Slots == 1..MaxInvocations

Threads == {"th1", "th2"}

\* The state of a thread no turn has written
EmptyThread == [messages |-> <<>>, suggestions |-> <<>>, title |-> Undefined]

NoTurn == [active |-> FALSE]

IdleSlot == [pc |-> "idle"]

\* The configurables a supervisor invocation may carry: complete for each
\* tenant, and incomplete in each way
SupRuntimes ==
    {[has |-> TRUE, configurable |-> [tenantId |-> t, userId |-> "u1", personId |-> "p1"]] :
        t \in Tenants \cup {""}} \cup
    {[has |-> TRUE, configurable |-> [tenantId |-> "t1", userId |-> Undefined, personId |-> "p1"]],
     [has |-> TRUE, configurable |-> [tenantId |-> "t1", userId |-> "u1", personId |-> Undefined]]}

\* A task the remote may list for a tenant
SomeTask(tenantId) ==
    [ _id |-> "1", tenantId |-> tenantId, title |-> "A", description |-> Undefined,
      status |-> "todo", label |-> "feature", priority |-> "medium" ]

\* What the remote answers to the sub-agent's list_tasks
SupResponses(tenantId) == {SuccessResponse(<<SomeTask(tenantId)>>)}

\* Either agent.ts is loaded; no tool invocation is in progress
SupInit ==
    /\ db = [n \in 1..MaxTasks |-> NoTask]
    /\ nextId = 1
    /\ pc = "idle"
    /\ tool = "none"
    /\ input = NoInput
    /\ runtime = NoRuntime
    /\ sent = <<>>
    /\ response = NoResponse
    /\ outcome = NoOutcome
    /\ agentVariant \in {"explicit", "global"}
    /\ sup = [s \in Slots |-> IdleSlot]
    /\ agentContext = NullCtx
    /\ lastRequest = {}
    /\ checkpoint = [t \in Threads |-> EmptyThread]
    /\ turn = NoTurn
    /\ env = ConfiguredEnv
    /\ convexModule = "loaded"
    /\ transcript = <<>>
    /\ extracted = NoOutcome

Running(kind, rt, subRuntime, request) ==
    [ pc |-> "running", kind |-> kind, runtime |-> rt, subRuntime |-> subRuntime,
      invoked |-> TRUE, calls |-> 0, issued |-> 0,
      messages |-> <<HumanMessage(PlainString(<<request>>))>> ]

Ended(slot, pcEnd, result) ==
    [ pc |-> pcEnd, kind |-> slot.kind, runtime |-> slot.runtime,
      invoked |-> slot.invoked, issued |-> slot.issued, result |-> result ]

\* manage_tasks up to its await of tasksAgent.invoke (explicit variant)
ManageTasks(s) ==
    /\ agentVariant = "explicit"
    /\ sup[s].pc = "idle"
    /\ \E rt \in SupRuntimes :
        LET ctx == manageTasksContext(rt)
        IN  sup' = [sup EXCEPT ![s] =
                IF ctx = NullCtx
                THEN [ pc |-> "returned", kind |-> "manage_tasks", runtime |-> rt,
                       invoked |-> FALSE, issued |-> 0, result |-> ManageTasksContextError ]
                ELSE Running("manage_tasks", rt,
                             [has |-> TRUE, configurable |-> ctx], "list my tasks")]
    /\ UNCHANGED <<agentVariant, agentContext, lastRequest, db, nextId, toolVars, threadVars, envVars, traceVars>>

\* manage_tasks up to its await of tasksAgent.invoke (global variant)
ManageTasksGlobal(s) ==
    /\ agentVariant = "global"
    /\ sup[s].pc = "idle"
    /\ \E rt \in SupRuntimes :
        LET ctx == manageTasksGlobalContext(rt)
        IN  IF ctx = NullCtx
            THEN /\ sup' = [sup EXCEPT ![s] =
                        [ pc |-> "returned", kind |-> "manage_tasks", runtime |-> rt,
                          invoked |-> FALSE, issued |-> 0, result |-> GlobalContextError ]]
                 /\ UNCHANGED agentContext
            ELSE /\ setAgentContext(ctx)
                 /\ sup' = [sup EXCEPT ![s] =
                        Running("manage_tasks", rt, NoRuntime, "list my tasks")]
    /\ UNCHANGED <<agentVariant, lastRequest, db, nextId, toolVars, threadVars, envVars, traceVars>>

\* The sub-agent's model calls list_tasks; the tool runs with the context ctx
CallListTasks(s, ctx) ==
    /\ sup[s].pc = "running"
    /\ sup[s].kind = "manage_tasks"
    /\ sup[s].calls < MaxCalls
    /\ LET call == [name |-> "list_tasks", args |-> NoInput, id |-> "call"]
           own == Configurable(sup[s].runtime)
       IN  IF ctx = NullCtx
           THEN /\ sup' = [sup EXCEPT
                        ![s].calls = @ + 1,
                        ![s].messages = @ \o
                            << AIMessage(PlainString(<<>>), <<call>>),
                               ToolMessage("list_tasks", PlainString(ContextError), "call") >>]
                /\ UNCHANGED lastRequest
           ELSE \E resp \in SupResponses(ctx.tenantId) :
                LET req == listTasksRequest(ctx)
                    out == listTasks(convexRequest(req.type, resp))
                IN  /\ lastRequest' =
                            {[ tenantId |-> req.body.args.tenantId,
                               userId |-> req.body.args.userId,
                               ownTenantId |-> own.tenantId,
                               ownUserId |-> own.userId ]}
                    /\ sup' = [sup EXCEPT
                            ![s].calls = @ + 1,
                            ![s].issued = @ + 1,
                            ![s].messages = @ \o
                                << AIMessage(PlainString(<<>>), <<call>>),
                                   ToolMessage("list_tasks", out.value, "call") >>]
    /\ UNCHANGED <<agentVariant, agentContext, db, nextId, toolVars, threadVars, envVars, traceVars>>

\* explicit variant: the tool reads the configurable manage_tasks passed on
ToolCall(s) ==
    /\ agentVariant = "explicit"
    /\ sup[s].pc = "running"
    /\ CallListTasks(s, getContextFromRuntime(sup[s].subRuntime))

\* global variant: the tool reads the module-level current context
ToolCallGlobal(s) ==
    /\ agentVariant = "global"
    /\ sup[s].pc = "running"
    /\ CallListTasks(s, getAgentContext)

FinalMessage == AIMessage(PlainString(<<"Done.">>), <<>>)

\* tasksAgent.invoke resolves and manage_tasks returns (explicit variant)
ManageTasksReturns(s) ==
    /\ agentVariant = "explicit"
    /\ sup[s].pc = "running"
    /\ sup[s].kind = "manage_tasks"
    /\ sup' = [sup EXCEPT ![s] =
            Ended(sup[s], "returned",
                  manageTasksResult(Append(sup[s].messages, FinalMessage)))]
    /\ UNCHANGED <<agentVariant, agentContext, lastRequest, db, nextId, toolVars, threadVars, envVars, traceVars>>

\* tasksAgent.invoke rejects; manage_tasks has no catch (explicit variant)
ManageTasksThrows(s) ==
    /\ agentVariant = "explicit"
    /\ sup[s].pc = "running"
    /\ sup[s].kind = "manage_tasks"
    /\ sup' = [sup EXCEPT ![s] = Ended(sup[s], "threw", PlainString(<<"LLM call failed">>))]
    /\ UNCHANGED <<agentVariant, agentContext, lastRequest, db, nextId, toolVars, threadVars, envVars, traceVars>>

\* tasksAgent.invoke resolves; finally clears the context (global variant)
ManageTasksGlobalReturns(s) ==
    /\ agentVariant = "global"
    /\ sup[s].pc = "running"
    /\ sup[s].kind = "manage_tasks"
    /\ sup' = [sup EXCEPT ![s] =
            Ended(sup[s], "returned",
                  lastMessageResult(Append(sup[s].messages, FinalMessage)))]
    /\ clearAgentContext
    /\ UNCHANGED <<agentVariant, lastRequest, db, nextId, toolVars, threadVars, envVars, traceVars>>

\* tasksAgent.invoke rejects; finally clears the context, the error goes on
ManageTasksGlobalThrows(s) ==
    /\ agentVariant = "global"
    /\ sup[s].pc = "running"
    /\ sup[s].kind = "manage_tasks"
    /\ sup' = [sup EXCEPT ![s] = Ended(sup[s], "threw", PlainString(<<"LLM call failed">>))]
    /\ clearAgentContext
    /\ UNCHANGED <<agentVariant, lastRequest, db, nextId, toolVars, threadVars, envVars, traceVars>>

\* handle_general up to its await of generalAgent.invoke
HandleGeneral(s) ==
    /\ sup[s].pc = "idle"
    /\ sup' = [sup EXCEPT ![s] = Running("handle_general", NoRuntime, NoRuntime, "hello")]
    /\ UNCHANGED <<agentVariant, agentContext, lastRequest, db, nextId, toolVars, threadVars, envVars, traceVars>>

\* generalAgent.invoke resolves and handle_general returns
HandleGeneralReturns(s) ==
    /\ sup[s].pc = "running"
    /\ sup[s].kind = "handle_general"
    /\ LET messages == Append(sup[s].messages, FinalMessage)
       IN  sup' = [sup EXCEPT ![s] =
                Ended(sup[s], "returned",
                      IF agentVariant = "explicit"
                      THEN handleGeneralResult(messages)
                      ELSE lastMessageResult(messages))]
    /\ UNCHANGED <<agentVariant, agentContext, lastRequest, db, nextId, toolVars, threadVars, envVars, traceVars>>

\* generalAgent.invoke rejects; handle_general has no catch
HandleGeneralThrows(s) ==
    /\ sup[s].pc = "running"
    /\ sup[s].kind = "handle_general"
    /\ sup' = [sup EXCEPT ![s] = Ended(sup[s], "threw", PlainString(<<"LLM call failed">>))]
    /\ UNCHANGED <<agentVariant, agentContext, lastRequest, db, nextId, toolVars, threadVars, envVars, traceVars>>

\* The supervisor takes the tool's result; the slot is free again
SupFinish(s) ==
    /\ sup[s].pc \in {"returned", "threw"}
    /\ sup' = [sup EXCEPT ![s] = IdleSlot]
    /\ UNCHANGED <<agentVariant, agentContext, lastRequest, db, nextId, toolVars, threadVars, envVars, traceVars>>

SupNext ==
    \E s \in Slots :
        \/ ManageTasks(s)
        \/ ManageTasksGlobal(s)
        \/ ToolCall(s)
        \/ ToolCallGlobal(s)
        \/ ManageTasksReturns(s)
        \/ ManageTasksThrows(s)
        \/ ManageTasksGlobalReturns(s)
        \/ ManageTasksGlobalThrows(s)
        \/ HandleGeneral(s)
        \/ HandleGeneralReturns(s)
        \/ HandleGeneralThrows(s)
        \/ SupFinish(s)

-----------------------------------------------------------------------------
(* agent.ts: the supervisor agent, its checkpointer and its middleware *)

RECURSIVE CountType(_, _)
CountType(messages, type) ==
    IF Len(messages) = 0 THEN 0
    ELSE (IF Head(messages).type = type THEN 1 ELSE 0) + CountType(Tail(messages), type)

\* What the suggestion and title models may answer
SuggestionAnswers ==
    {[threw |-> TRUE], [threw |-> FALSE, suggestions |-> <<"Show my tasks", "Mark it as done">>]}

TitleAnswers == {[threw |-> TRUE], [threw |-> FALSE, title |-> "Bug Fix for Login"]}

\* suggestionMiddleware.afterAgent: the state update it returns
suggestionMiddleware(state, answer) ==
    IF answer.threw THEN [suggestions |-> <<>>]
    ELSE [suggestions |-> answer.suggestions]

\* Mutant: a title is requested after every turn
titleGenerationMiddleware_everyTurn(state, answer) ==
    IF answer.threw THEN [none |-> TRUE] ELSE [title |-> answer.title]

\* titleGenerationMiddleware.afterAgent: the state update it returns
titleGenerationMiddleware(state, answer) ==
    LET humanMessages == CountType(state.messages, "human")
        aiMessages == CountType(state.messages, "ai")
    IN  IF humanMessages # 1 \/ aiMessages = 0 THEN [none |-> TRUE]
        ELSE IF answer.threw THEN [none |-> TRUE]
        ELSE [title |-> answer.title]

\* A state with an update's keys written over it
Updated(state, update) ==
    [k \in DOMAIN state |-> IF k \in DOMAIN update THEN update[k] ELSE state[k]]

\* Mutant: one stored state for every thread
checkpointerPut_shared(cp, thread, state) == [t \in DOMAIN cp |-> state]

\* checkpointer.put: the state is stored under its thread id
checkpointerPut(cp, thread, state) == [cp EXCEPT ![thread] = state]

\* agent.invoke({messages: [human]}, {configurable: {thread_id}})
Invoke(t) ==
    /\ ~turn.active
    /\ CountType(checkpoint[t].messages, "human") < MaxTurns
    /\ LET state == checkpoint[t]
       IN  checkpoint' = checkpointerPut(checkpoint, t,
                [state EXCEPT !.messages =
                    Append(@, HumanMessage(PlainString(<<"delete the marketing one">>)))])
    /\ turn' = [active |-> TRUE, thread |-> t, phase |-> "model"]
    /\ UNCHANGED <<db, nextId, toolVars, supVars, envVars, traceVars>>

\* The supervisor's model calls one of its tools, and the tool returns
ModelRoutes(name) ==
    /\ turn.active
    /\ turn.phase = "model"
    /\ LET state == checkpoint[turn.thread]
           messages == <<HumanMessage(PlainString(<<"request">>)), FinalMessage>>
           content == IF name = "manage_tasks" THEN manageTasksResult(messages)
                      ELSE handleGeneralResult(messages)
           call == [name |-> name, args |-> [request |-> "request"], id |-> "call"]
       IN  checkpoint' = checkpointerPut(checkpoint, turn.thread,
                [state EXCEPT !.messages = @ \o
                    << AIMessage(PlainString(<<>>), <<call>>),
                       ToolMessage(name, content, "call") >>])
    /\ turn' = [turn EXCEPT !.phase = "answer"]
    /\ UNCHANGED <<db, nextId, toolVars, supVars, envVars, traceVars>>

\* The supervisor's model answers, at once or after the tool's result
ModelAnswers ==
    /\ turn.active
    /\ turn.phase \in {"model", "answer"}
    /\ LET state == checkpoint[turn.thread]
       IN  checkpoint' = checkpointerPut(checkpoint, turn.thread,
                [state EXCEPT !.messages = Append(@, FinalMessage)])
    /\ turn' = [turn EXCEPT !.phase = "afterAgent"]
    /\ UNCHANGED <<db, nextId, toolVars, supVars, envVars, traceVars>>

\* The afterAgent hooks run, their updates are stored and the turn completes
AfterAgent ==
    /\ turn.active
    /\ turn.phase = "afterAgent"
    /\ \E sa \in SuggestionAnswers, ta \in TitleAnswers :
        LET state == checkpoint[turn.thread]
            withTitle == Updated(state, titleGenerationMiddleware(state, ta))
            final == Updated(withTitle, suggestionMiddleware(state, sa))
        IN  checkpoint' = checkpointerPut(checkpoint, turn.thread, final)
    /\ turn' = NoTurn
    /\ UNCHANGED <<db, nextId, toolVars, supVars, envVars, traceVars>>

ThreadNext ==
    \/ \E t \in Threads : Invoke(t)
    \/ \E name \in {"manage_tasks", "handle_general"} : ModelRoutes(name)
    \/ ModelAnswers
    \/ AfterAgent

-----------------------------------------------------------------------------
(* agent.ts: what the supervisor's tools make of a sub-agent transcript *)

\* The UI payloads and tool results a task tool may have produced
TableUi == [name |-> "TaskTable", props |-> [tasks |-> <<SomeTask("t1")>>]]

FormUi ==
    [ name |-> "TaskEditForm",
      props |-> [formId |-> "f1", mode |-> "create", initialValues |-> [title |-> "A"]] ]

\* The messages a transcript is made of
TranscriptMessages ==
    { HumanMessage(PlainString(<<"list my tasks">>)),
      FinalMessage,
      AIMessage([blocks |-> <<"thinking">>],
                << [name |-> "list_tasks", args |-> NoInput, id |-> "call1"],
                   [name |-> "propose_task", args |-> [title |-> "A"], id |-> "call2"] >>),
      ToolMessage("list_tasks",
                  JSONstringify([text |-> <<"Found ", "1", " task(s).">>, __ui__ |-> TableUi]),
                  "call1"),
      ToolMessage(Undefined,
                  JSONstringify([text |-> <<"Here's the form.">>, __ui__ |-> FormUi]),
                  "call2"),
      ToolMessage("delete_task", PlainString(<<"Task ", "1", " deleted successfully.">>),
                  "call1"),
      ToolMessage("get_task", [blocks |-> <<"Task not found">>], "call2") }

\* Every message list of 1 to MaxLen messages
Transcripts == UNION {[1..n -> TranscriptMessages] : n \in 1..MaxLen}

\* A sub-agent invocation has resolved with some transcript
TraceInit ==
    /\ db = [n \in 1..MaxTasks |-> NoTask]
    /\ nextId = 1
    /\ pc = "idle"
    /\ tool = "none"
    /\ input = NoInput
    /\ runtime = NoRuntime
    /\ sent = <<>>
    /\ response = NoResponse
    /\ outcome = NoOutcome
    /\ agentVariant = "explicit"
    /\ sup = [s \in Slots |-> IdleSlot]
    /\ agentContext = NullCtx
    /\ lastRequest = {}
    /\ checkpoint = [t \in Threads |-> EmptyThread]
    /\ turn = NoTurn
    /\ env = ConfiguredEnv
    /\ convexModule = "loaded"
    /\ transcript \in Transcripts
    /\ extracted = NoOutcome

\* manage_tasks after tasksAgent.invoke has resolved with the transcript
ManageTasksExtracts ==
    /\ extracted = NoOutcome
    /\ extracted' = [by |-> "manage_tasks", value |-> manageTasksResult(transcript)]
    /\ UNCHANGED <<transcript, db, nextId, toolVars, supVars, threadVars, envVars>>

\* handle_general after generalAgent.invoke has resolved with the transcript
HandleGeneralExtracts ==
    /\ extracted = NoOutcome
    /\ extracted' = [by |-> "handle_general", value |-> handleGeneralResult(transcript)]
    /\ UNCHANGED <<transcript, db, nextId, toolVars, supVars, threadVars, envVars>>

\* extractSubagentMessages applied to the whole transcript
ExtractSubagentMessages ==
    /\ extracted = NoOutcome
    /\ extracted' = [by |-> "extractSubagentMessages",
                     value |-> extractSubagentMessages(transcript)]
    /\ UNCHANGED <<transcript, db, nextId, toolVars, supVars, threadVars, envVars>>

TraceNext ==
    \/ ManageTasksExtracts
    \/ HandleGeneralExtracts
    \/ ExtractSubagentMessages

-----------------------------------------------------------------------------
(* Specifications *)

\* The state after construction, no supervisor-tool invocation in progress
Init ==
    /\ db = [n \in 1..MaxTasks |-> NoTask]
    /\ nextId = 1
    /\ pc = "idle"
    /\ tool = "none"
    /\ input = NoInput
    /\ runtime = NoRuntime
    /\ sent = <<>>
    /\ response = NoResponse
    /\ outcome = NoOutcome
    /\ agentVariant = "explicit"
    /\ sup = [s \in Slots |-> IdleSlot]
    /\ agentContext = NullCtx
    /\ lastRequest = {}
    /\ checkpoint = [t \in Threads |-> EmptyThread]
    /\ turn = NoTurn
    /\ env = ConfiguredEnv
    /\ convexModule = "loaded"
    /\ transcript = <<>>
    /\ extracted = NoOutcome

\* lib/convex.ts is loaded: its validation throws, or the module is ready
LoadModule ==
    /\ convexModule = "unloaded"
    /\ convexModule' = IF convexModuleLoad(env) = NoOutcome THEN "loaded" ELSE "failed"
    /\ UNCHANGED <<env, db, nextId, toolVars, supVars, threadVars, traceVars>>

\* The process starts in any environment; no module is loaded yet
LoadInit ==
    /\ db = [n \in 1..MaxTasks |-> NoTask]
    /\ nextId = 1
    /\ pc = "idle"
    /\ tool = "none"
    /\ input = NoInput
    /\ runtime = NoRuntime
    /\ sent = <<>>
    /\ response = NoResponse
    /\ outcome = NoOutcome
    /\ agentVariant = "explicit"
    /\ sup = [s \in Slots |-> IdleSlot]
    /\ agentContext = NullCtx
    /\ lastRequest = {}
    /\ checkpoint = [t \in Threads |-> EmptyThread]
    /\ turn = NoTurn
    /\ env \in Envs
    /\ convexModule = "unloaded"
    /\ transcript = <<>>
    /\ extracted = NoOutcome

LoadNext ==
    \/ LoadModule
    \/ ListTasks
    \/ GetTask
    \/ SearchTasks
    \/ FetchRejects
    \/ QuerySucceeds
    \/ Finish

Next ==
    \/ ListTasks
    \/ GetTask
    \/ SearchTasks
    \/ CreateTask
    \/ UpdateTask
    \/ DeleteTask
    \/ ProposeTask
    \/ ProposeTaskUpdate
    \/ ProposeTaskDelete
    \/ FetchRejects
    \/ HttpError
    \/ StatusError
    \/ QuerySucceeds
    \/ MutationSucceeds
    \/ Finish

\* The task tools against the remote task API
Spec == Init /\ [][Next]_vars

\* The supervisor's tools, their invocations overlapping
SupSpec == SupInit /\ [][SupNext]_vars

\* The supervisor agent, turn after turn on its threads
ThreadSpec == Init /\ [][ThreadNext]_vars

\* Startup in any environment, then the query tools
LoadSpec == LoadInit /\ [][LoadNext]_vars

\* The supervisor's tools applied to every transcript
TraceSpec == TraceInit /\ [][TraceNext]_vars

-----------------------------------------------------------------------------
(* ui/types.ts: the component names and the props each declares *)

UIComponentMap ==
    [ TaskTable |-> {"tasks"},
      TaskCard |-> {"task"},
      TaskEditForm |-> {"task", "mode"},
      TaskConfirmDelete |-> {"task"} ]

-----------------------------------------------------------------------------
(* Properties of the task tools *)

IsPlain(o) == o.kind = "return" /\ ~o.value.json

IsJson(o) == o.kind = "return" /\ o.value.json

\* The words between "Error" and ": " in each tool's catch block
ErrorPhrase(t) ==
    CASE t = "list_tasks" -> " listing tasks"
      [] t = "get_task" -> " getting task"
      [] t = "search_tasks" -> " searching tasks"
      [] t = "create_task" -> " creating task"
      [] t = "update_task" -> " updating task"
      [] t = "delete_task" -> " deleting task"
      [] t = "propose_task_update" -> " getting task for update"
      [] t = "propose_task_delete" -> " getting task for deletion"
      [] OTHER -> ""

\* C2 as stated: when the remote request of a tool invocation fails, the tool
\* throws nothing and returns a plain string that begins with "Error: ".
C2_ErrorColonPrefix ==
    (pc = "done" /\ Failed(response)) =>
        IsPlain(outcome) /\ StartsWith(outcome.value.s, <<"Error", ": ">>)

\* C2 amended: when the remote request of a tool invocation fails, the tool
\* throws nothing and returns a plain string that begins with "Error", the
\* tool's own phrase for what it was doing, and ": " (e.g. "Error listing
\* tasks: "), followed by the error's message.
C2_FailureCaught ==
    (pc = "done" /\ Failed(response)) =>
        /\ IsPlain(outcome)
        /\ StartsWith(outcome.value.s, <<"Error", ErrorPhrase(tool), ": ">>)
        /\ Len(outcome.value.s) > 3

C2_Witness ==
    /\ pc = "done"
    /\ tool = "list_tasks"
    /\ response.kind = "http" /\ ~response.ok
    /\ IsPlain(outcome)

ContextMissing(rt) ==
    \/ ~rt.has
    \/ rt.configurable.tenantId \in {Undefined, ""}
    \/ rt.configurable.userId \in {Undefined, ""}

\* C3: a tool invoked without a runtime context, or with a tenantId or userId
\* that is missing or empty, returns the string "Error: Agent context not
\* configured. ..." as its value, throws nothing and issues no remote request.
C3_MissingContext ==
    (pc # "idle" /\ ContextMissing(runtime)) =>
        /\ pc = "done"
        /\ sent = <<>>
        /\ response = NoResponse
        /\ IsPlain(outcome)
        /\ StartsWith(outcome.value.s, <<"Error", ": ", "Agent context not configured.">>)

C3_Witness ==
    /\ pc = "done"
    /\ tool = "create_task"
    /\ runtime.has /\ runtime.configurable.tenantId = ""
    /\ sent = <<>>

\* The JSON envelope {text, __ui__: {name, props}}
WellFormedEnvelope(v) ==
    /\ "text" \in DOMAIN v
    /\ v.text \in Seq(STRING)
    /\ "__ui__" \in DOMAIN v
    /\ DOMAIN v.__ui__ \subseteq STRING
    /\ "name" \in DOMAIN v.__ui__
    /\ v.__ui__.name \in STRING
    /\ "props" \in DOMAIN v.__ui__
    /\ DOMAIN v.__ui__.props \subseteq STRING

\* C4: every value a task tool returns is a plain string, or the JSON text of
\* an object with a string text and a __ui__ that is one object with a string
\* name and an object props.
C4_ResponseShape ==
    pc = "done" =>
        /\ outcome.kind = "return"
        /\ \/ ~outcome.value.json /\ outcome.value.s \in Seq(STRING)
           \/ outcome.value.json /\ WellFormedEnvelope(outcome.value.v)

C4_Witness ==
    /\ pc = "done"
    /\ tool = "get_task"
    /\ IsJson(outcome)
    /\ outcome.value.v.__ui__.name = "TaskCard"

Provided(x, default) == IF x = Undefined THEN default ELSE x

\* C5 as stated: the create request of create_task carries status "backlog",
\* label "feature" and priority "medium" for the fields the caller omitted,
\* and the caller's value for every field it provided.
C5_CreateDefaults ==
    (tool = "create_task" /\ sent # <<>>) =>
        LET args == sent[1].body.args
        IN  /\ args.status = Provided(input.status, "backlog")
            /\ args.label = Provided(input.label, "feature")
            /\ args.priority = Provided(input.priority, "medium")
            /\ args.title = input.title

\* C6 as stated: every invocation of a task tool issues exactly one remote
\* request.
C6_ExactlyOneRequest == pc = "done" => Len(sent) = 1

\* C6 amended: an invocation issues at most one remote request and never a
\* second one, also after a failure: exactly one when the context is
\* configured and the tool is not propose_task, none otherwise.
C6_AtMostOneRequest ==
    /\ Len(sent) <= 1
    /\ pc = "done" =>
        (Len(sent) = 1 <=> (~ContextMissing(runtime) /\ tool # "propose_task"))
    /\ pc = "pending" => Len(sent) = 1

C6_Witness ==
    /\ pc = "done"
    /\ tool = "update_task"
    /\ Failed(response)
    /\ Len(sent) = 1

\* C10 as stated: every __ui__ a task tool emits names a component of
\* UIComponentMap and its props carry the keys declared for that component.
C10_DeclaredComponents ==
    (pc = "done" /\ IsJson(outcome)) =>
        LET ui == outcome.value.v.__ui__
        IN  /\ ui.name \in DOMAIN UIComponentMap
            /\ UIComponentMap[ui.name] \subseteq DOMAIN ui.props

\* C1 (as stated): every request a task tool issues (each is at its time the
\* last one issued) carries the tenantId and userId of the manage_tasks
\* invocation it was issued for, however invocations overlap
C1_TenantScoping ==
    \A r \in lastRequest :
        /\ r.tenantId = r.ownTenantId
        /\ r.userId = r.ownUserId

\* C8 (as stated): a failure of the sub-agent never escapes manage_tasks or
\* handle_general as an exception
C8_SubagentFailureCaught ==
    \A s \in Slots : sup[s].pc # "threw"

\* One of tenantId, userId, personId is absent or empty
IncompleteContext(rt) ==
    LET c == Configurable(rt)
    IN  \/ c.tenantId \in {Undefined, ""}
        \/ c.userId \in {Undefined, ""}
        \/ c.personId \in {Undefined, ""}

\* C9: with an incomplete context manage_tasks (explicit variant) returns the
\* JSON envelope with the "Error: Agent context not configured." result and
\* no sub-agent messages, without invoking the sub-agent and without a request
C9_IncompleteContext ==
    \A s \in Slots :
        ( /\ agentVariant = "explicit"
          /\ sup[s].pc # "idle"
          /\ sup[s].kind = "manage_tasks"
          /\ IncompleteContext(sup[s].runtime) )
        => /\ sup[s].pc = "returned"
           /\ ~sup[s].invoked
           /\ sup[s].result.json
           /\ DOMAIN sup[s].result.v = {"result", "subagentMessages"}
           /\ StartsWith(sup[s].result.v.result,
                         <<"Error", ": ", "Agent context not configured.">>)
           /\ sup[s].result.v.subagentMessages = <<>>
           /\ sup[s].issued = 0

\* C9 witness: manage_tasks has returned the envelope for a configurable
\* whose personId is absent, while a request of another invocation is logged
C9_Witness ==
    \E s \in Slots :
        /\ agentVariant = "explicit"
        /\ sup[s].pc = "returned"
        /\ sup[s].kind = "manage_tasks"
        /\ Configurable(sup[s].runtime).tenantId = "t1"
        /\ Configurable(sup[s].runtime).personId = Undefined
        /\ sup[s].result = ManageTasksContextError
        /\ lastRequest # {}

\* C7 (as stated): once a supervisor invocation has completed the process
\* holds no state written during a turn
C7_NoStateSurvives ==
    ~turn.active => \A t \in Threads : checkpoint[t] = EmptyThread

\* The thread of the turn that takes the step
ActingThread == IF turn.active THEN turn.thread ELSE turn'.thread

\* C7 (amended): what a turn writes stays stored under its thread id, so the
\* stored messages of a thread only grow and a later turn on the thread
\* starts from them; the stored title changes only while the thread holds
\* exactly one human message; a turn never changes another thread's state
C7_ThreadStateKept ==
    [][ /\ \A t \in Threads :
            /\ StartsWith(checkpoint'[t].messages, checkpoint[t].messages)
            /\ checkpoint'[t].title # checkpoint[t].title
                    => CountType(checkpoint'[t].messages, "human") = 1
        /\ \A t \in Threads \ {ActingThread} : checkpoint'[t] = checkpoint[t] ]_vars

\* C7 witness: a second turn on a thread has completed on top of the first
\* turn's messages and title, and the other thread holds a state of its own
C7_Witness ==
    /\ ~turn.active
    /\ CountType(checkpoint["th1"].messages, "human") = 2
    /\ checkpoint["th1"].title # Undefined
    /\ checkpoint["th2"].messages # <<>>
    /\ checkpoint["th2"] # checkpoint["th1"]

\* The string holds the token
Contains(s, token) == \E i \in 1..Len(s) : s[i] = token

\* The server answered and rejected the request; the text it gave
Rejected(resp) == resp.kind = "http" /\ (~resp.ok \/ resp.body.status = "error")

RejectionText(resp) == IF resp.ok THEN resp.body.errorMessage ELSE resp.text

ExpectedPath(t) ==
    CASE t = "list_tasks" -> <<"agent/tasks:list", "query">>
      [] t = "get_task" -> <<"agent/tasks:get", "query">>
      [] t = "search_tasks" -> <<"agent/tasks:search", "query">>
      [] t = "create_task" -> <<"agent/tasks:create", "mutation">>
      [] t = "update_task" -> <<"agent/tasks:update", "mutation">>
      [] t = "delete_task" -> <<"agent/tasks:remove", "mutation">>
      [] t = "propose_task_update" -> <<"agent/tasks:get", "query">>
      [] t = "propose_task_delete" -> <<"agent/tasks:get", "query">>

\* C12: every remote request is a POST to {CONVEX_URL}/api/query or
\* /api/mutation with the Authorization header "Convex <deploy key>" and the
\* body {path, args, format: "json"}; list, get and search go to /api/query,
\* create, update and remove to /api/mutation, each with its own path; args
\* always holds tenantId and userId
C12_RequestShape ==
    \A i \in 1..Len(sent) :
        LET r == sent[i]
        IN  /\ r.method = "POST"
            /\ r.url \in {<<CONVEX_URL, "/api/", "query">>,
                          <<CONVEX_URL, "/api/", "mutation">>}
            /\ r.headers.Authorization = <<"Convex ", CONVEX_DEPLOY_KEY>>
            /\ DOMAIN r.body = {"path", "args", "format"}
            /\ r.body.format = "json"
            /\ r.body.path = ExpectedPath(tool)[1]
            /\ r.url[3] = ExpectedPath(tool)[2]
            /\ {"tenantId", "userId"} \subseteq DOMAIN r.body.args
            /\ r.body.args.tenantId \in Tenants
            /\ r.body.args.userId = "u1"

\* C12 witness: update_task has sent its request and awaits the answer
C12_Witness ==
    /\ pc = "pending"
    /\ tool = "update_task"
    /\ Len(sent) = 1
    /\ sent[1].body.path = "agent/tasks:update"

\* No tool has been invoked and no remote request has been issued
NothingRan == pc = "idle" /\ tool = "none" /\ sent = <<>>

\* C13 (as stated): with the LLM provider API key, CONVEX_URL or
\* CONVEX_DEPLOY_KEY missing, startup fails before any tool is invoked and
\* before any remote request is issued
C13_FailFast ==
    ( \/ Falsy(env.OPENAI_API_KEY)
      \/ Falsy(env.CONVEX_URL)
      \/ Falsy(env.CONVEX_DEPLOY_KEY) )
    => convexModule # "loaded" /\ NothingRan

\* C13 (amended): with CONVEX_URL or CONVEX_DEPLOY_KEY missing or empty the
\* load of the Convex client module fails, so no task tool is ever invoked and
\* no remote request is ever issued; the module is loaded only with both set
C13_ConvexFailFast ==
    /\ (Falsy(env.CONVEX_URL) \/ Falsy(env.CONVEX_DEPLOY_KEY))
        => convexModule # "loaded" /\ NothingRan
    /\ convexModule = "unloaded" => NothingRan
    /\ convexModule = "failed"
        => /\ Falsy(env.CONVEX_URL) \/ Falsy(env.CONVEX_DEPLOY_KEY)
           /\ convexModuleLoad(env).kind = "throw"

\* C13 witness: the load has failed for an empty CONVEX_DEPLOY_KEY
C13_Witness ==
    /\ convexModule = "failed"
    /\ env.CONVEX_URL = ConfiguredEnv.CONVEX_URL
    /\ env.CONVEX_DEPLOY_KEY = ""

\* A transcript of a completed sub-agent run: the user's message first, the
\* model's final answer (no tool calls) last
WellFormed(messages) ==
    /\ Len(messages) >= 2
    /\ messages[1].type = "human"
    /\ messages[Len(messages)].type = "ai"
    /\ messages[Len(messages)].tool_calls = <<>>

\* The tool message's content is a JSON object with a truthy __ui__
CarriesUi(msg) ==
    /\ msg.type = "tool"
    /\ "json" \in DOMAIN msg.content
    /\ msg.content.json
    /\ "__ui__" \in DOMAIN msg.content.v
    /\ msg.content.v.__ui__ # NullValue

\* The __ui__ payloads of a transcript's tool results, in transcript order
RECURSIVE UiPayloads(_)
UiPayloads(messages) ==
    IF messages = <<>> THEN <<>>
    ELSE (IF CarriesUi(Head(messages)) THEN <<Head(messages).content.v.__ui__>> ELSE <<>>)
         \o UiPayloads(Tail(messages))

EntryCount(msg) ==
    IF msg.type = "ai" THEN Len(msg.tool_calls)
    ELSE IF msg.type = "tool" THEN 1 ELSE 0

\* The entries of messages[from..to], counted
RECURSIVE EntriesBetween(_, _, _)
EntriesBetween(messages, from, to) ==
    IF from > to THEN 0
    ELSE EntryCount(messages[from]) + EntriesBetween(messages, from + 1, to)

\* Every tool call and the tool result of a message has its entry in the trace
Appears(msg, trace) ==
    /\ msg.type = "ai" =>
        \A k \in 1..Len(msg.tool_calls) : \E j \in 1..Len(trace) :
            trace[j] = [ type |-> "tool_call", name |-> msg.tool_calls[k].name,
                         args |-> msg.tool_calls[k].args, id |-> msg.tool_calls[k].id ]
    /\ msg.type = "tool" =>
        \E j \in 1..Len(trace) :
            /\ trace[j].type = "tool_result"
            /\ trace[j].toolCallId = msg.tool_call_id
            /\ trace[j].content =
                   (IF "json" \in DOMAIN msg.content THEN msg.content
                    ELSE [json |-> TRUE, v |-> msg.content])

\* A response built from the transcript by manage_tasks or handle_general
Aggregated ==
    /\ extracted # NoOutcome
    /\ extracted.by \in {"manage_tasks", "handle_general"}

\* `result` is the last message's content, serialised when it is not a string
ResultIsLastContent ==
    LET last == transcript[Len(transcript)].content
    IN  extracted.value.v.result =
            (IF "json" \in DOMAIN last THEN last ELSE [json |-> TRUE, v |-> last])

\* C16 as stated: `result` is the last message's content and every tool call
\* and tool result of the transcript, whatever its position and whatever the
\* transcript's length, appears in subagentMessages
C16_TraceComplete ==
    Aggregated =>
        /\ ResultIsLastContent
        /\ \A i \in 1..Len(transcript) :
            Appears(transcript[i], extracted.value.v.subagentMessages)

\* C16 amended: `result` is the last message's content; subagentMessages holds
\* exactly the tool calls and tool results of the messages strictly between
\* the first and the last; it is complete when the transcript starts with the
\* user's message and ends with an answer that has no tool calls, and empty
\* for fewer than three messages
C16_InnerTraceComplete ==
    Aggregated =>
        LET trace == extracted.value.v.subagentMessages
            n == Len(transcript)
        IN  /\ ResultIsLastContent
            /\ Len(trace) = EntriesBetween(transcript, 2, n - 1)
            /\ \A i \in 2..(n - 1) : Appears(transcript[i], trace)
            /\ n < 3 => trace = <<>>
            /\ WellFormed(transcript) =>
                \A i \in 1..n : Appears(transcript[i], trace)

\* C16 witness: handle_general has aggregated a transcript whose inner
\* messages are a model message with two tool calls and their two results,
\* and whose last message is the final answer
C16_Witness ==
    /\ extracted # NoOutcome
    /\ extracted.by = "handle_general"
    /\ Len(transcript) = 5
    /\ transcript[1].type = "human"
    /\ transcript[2].type = "ai" /\ Len(transcript[2].tool_calls) = 2
    /\ transcript[3].type = "tool" /\ transcript[4].type = "tool"
    /\ transcript[5] = FinalMessage
    /\ Len(extracted.value.v.subagentMessages) = 4
    /\ extracted.value.v.result = FinalMessage.content

\* C17: the output of extractSubagentMessages is the concatenation, in input
\* order, of one tool_call entry per tool call of each AI message (name, args
\* and id copied, in their listed order) and one tool_result entry per tool
\* message (name defaulting to "unknown", content serialised, toolCallId
\* copied); human messages and AI messages without tool calls add nothing, so
\* the output length is the number of tool calls plus the number of tool
\* messages
C17_TraceOrderAndCount ==
    (extracted # NoOutcome /\ extracted.by = "extractSubagentMessages") =>
        LET out == extracted.value
            n == Len(transcript)
        IN  /\ Len(out) = EntriesBetween(transcript, 1, n)
            /\ \A i \in 1..n :
                LET msg == transcript[i]
                    offset == EntriesBetween(transcript, 1, i - 1)
                IN  /\ msg.type = "ai" =>
                        \A k \in 1..Len(msg.tool_calls) :
                            out[offset + k] =
                                [ type |-> "tool_call",
                                  name |-> msg.tool_calls[k].name,
                                  args |-> msg.tool_calls[k].args,
                                  id |-> msg.tool_calls[k].id ]
                    /\ msg.type = "tool" =>
                        out[offset + 1] =
                            [ type |-> "tool_result",
                              name |-> IF msg.name \in {Undefined, ""}
                                       THEN "unknown" ELSE msg.name,
                              content |-> IF "json" \in DOMAIN msg.content
                                          THEN msg.content
                                          ELSE [json |-> TRUE, v |-> msg.content],
                              toolCallId |-> msg.tool_call_id ]

\* C17 witness: a list with a human message, an AI message with two tool
\* calls and an unnamed tool message has been mapped to three entries, the
\* last of them named "unknown"
C17_Witness ==
    /\ extracted # NoOutcome
    /\ extracted.by = "extractSubagentMessages"
    /\ \E i \in 1..Len(transcript) : transcript[i].type = "human"
    /\ \E i \in 1..Len(transcript) :
        transcript[i].type = "ai" /\ Len(transcript[i].tool_calls) = 2
    /\ Len(extracted.value) = 3
    /\ extracted.value[1].type = "tool_call" /\ extracted.value[1].id = "call1"
    /\ extracted.value[2].type = "tool_call" /\ extracted.value[2].id = "call2"
    /\ extracted.value[3].type = "tool_result" /\ extracted.value[3].name = "unknown"

ProposeTools == {"propose_task", "propose_task_update", "propose_task_delete"}

\* C18: propose_task issues no remote request; propose_task_update and
\* propose_task_delete issue at most a single request, a get query, never a
\* create, update or remove mutation; no step of a propose_* invocation
\* changes the tasks stored remotely
C18_ProposeIsReadOnly ==
    [][ /\ tool' = "propose_task" => sent' = <<>>
        /\ tool' \in {"propose_task_update", "propose_task_delete"} =>
            /\ Len(sent') <= 1
            /\ \A i \in 1..Len(sent') :
                /\ sent'[i].type = "query"
                /\ sent'[i].url = <<CONVEX_URL, "/api/", "query">>
                /\ sent'[i].body.path = "agent/tasks:get"
        /\ (tool \in ProposeTools \/ tool' \in ProposeTools) =>
            /\ db' = db
            /\ nextId' = nextId ]_vars

\* C18 witness: propose_task_delete has returned its confirmation for a
\* stored task after one get query, and the task is still stored
C18_Witness ==
    /\ tool = "propose_task_delete"
    /\ pc = "done"
    /\ IsJson(outcome)
    /\ Len(sent) = 1
    /\ sent[1].body.path = "agent/tasks:get"
    /\ Stored(input.id)

\* A manage_tasks invocation that has set the context and awaits its sub-agent
InProgress(s) == sup[s].pc = "running" /\ sup[s].kind = "manage_tasks"

\* C19: in the global-context variant the module-level context is unset
\* whenever no manage_tasks invocation is in progress, and while an invocation
\* is in progress it holds that invocation's tenantId and userId
C19_GlobalContextDiscipline ==
    agentVariant = "global" =>
        /\ (\A s \in Slots : ~InProgress(s)) => agentContext = NullCtx
        /\ \A s \in Slots :
            InProgress(s) =>
                agentContext = [ tenantId |-> sup[s].runtime.configurable.tenantId,
                                 userId |-> sup[s].runtime.configurable.userId ]

\* C20: a thread's title changes only in the afterAgent step of a turn whose
\* thread state holds exactly one human message and at least one AI message,
\* and it was unset until then; in every other step, and after every later
\* turn, the title is left as it was
C20_TitleOnFirstExchangeOnly ==
    [][ \A t \in Threads :
            checkpoint'[t].title # checkpoint[t].title =>
                /\ turn.active
                /\ turn.thread = t
                /\ turn.phase = "afterAgent"
                /\ CountType(checkpoint[t].messages, "human") = 1
                /\ CountType(checkpoint[t].messages, "ai") >= 1
                /\ checkpoint[t].title = Undefined
                /\ checkpoint'[t].title \in {a.title : a \in {x \in TitleAnswers : ~x.threw}} ]_vars

\* C20 witness: the second turn of a thread has run its afterAgent hooks and
\* the thread still carries the title generated after its first turn
C20_Witness ==
    /\ ~turn.active
    /\ CountType(checkpoint["th2"].messages, "human") = 2
    /\ CountType(checkpoint["th2"].messages, "ai") >= 2
    /\ checkpoint["th2"].title = "Bug Fix for Login"

\* The remote answered the invocation's request with a value
Succeeded ==
    /\ response.kind = "http"
    /\ response.ok
    /\ response.body.status = "success"

\* C21: the shape of what search_tasks returns follows the number of matches
\* the remote search returned: none gives a plain string without __ui__; one
\* gives a TaskCard whose task is that match; two or more give a TaskTable
\* whose tasks is the returned list and whose text states the list's length
C21_SearchResultShape ==
    (tool = "search_tasks" /\ pc = "done" /\ Succeeded) =>
        LET tasks == response.body.value
        IN  /\ Len(tasks) = 0 =>
                /\ IsPlain(outcome)
                /\ outcome.value.s = <<"No tasks found matching \"", input.query, "\".">>
            /\ Len(tasks) = 1 =>
                /\ IsJson(outcome)
                /\ DOMAIN outcome.value.v = {"text", "__ui__"}
                /\ outcome.value.v.__ui__ =
                       [name |-> "TaskCard", props |-> [task |-> tasks[1]]]
            /\ Len(tasks) >= 2 =>
                /\ IsJson(outcome)
                /\ DOMAIN outcome.value.v = {"text", "__ui__"}
                /\ outcome.value.v.__ui__ =
                       [name |-> "TaskTable", props |-> [tasks |-> tasks]]
                /\ outcome.value.v.text[2] = ToString(Len(tasks))

\* C21 witness: the remote search returned one match and search_tasks has
\* returned its card
C21_Witness ==
    /\ tool = "search_tasks"
    /\ pc = "done"
    /\ Succeeded
    /\ Len(response.body.value) = 1
    /\ IsJson(outcome)
    /\ outcome.value.v.__ui__.name = "TaskCard"

\* The fields of a task that the edit form pre-fills
FormFields == {"title", "description", "status", "label", "priority"}

\* C22: the form propose_task_update returns for a fetched task has mode
\* "edit" and the input's id as taskId, and each initial value is the input's
\* value when the input provides one, an empty string included, and the
\* fetched task's value otherwise, the description being "" when neither the
\* input nor the task has one
C22_EditFormPrefill ==
    (tool = "propose_task_update" /\ pc = "done" /\ Succeeded
        /\ response.body.value # NullValue) =>
        LET task == response.body.value
        IN  /\ IsJson(outcome)
            /\ outcome.value.v.__ui__.name = "TaskEditForm"
            /\ outcome.value.v.__ui__.props.mode = "edit"
            /\ outcome.value.v.__ui__.props.taskId = input.id
            /\ DOMAIN outcome.value.v.__ui__.props.initialValues = FormFields
            /\ \A f \in FormFields :
                outcome.value.v.__ui__.props.initialValues[f] =
                    IF input[f] # Undefined THEN input[f]
                    ELSE IF f = "description" /\ task[f] = Undefined THEN ""
                    ELSE task[f]

\* C22 witness: propose_task_update was given an empty title for a task
\* titled "A" and has returned the form with the empty title and the task's
\* other values
C22_Witness ==
    /\ tool = "propose_task_update"
    /\ pc = "done"
    /\ Succeeded
    /\ response.body.value # NullValue
    /\ response.body.value.title = "A"
    /\ input.title = ""
    /\ IsJson(outcome)
    /\ outcome.value.v.__ui__.props.initialValues.title = ""
    /\ outcome.value.v.__ui__.props.initialValues.status = response.body.value.status

\* The tools that fetch one task by id before they answer
FetchingTools == {"get_task", "propose_task_update", "propose_task_delete"}

\* C23: when the remote get answers null, get_task, propose_task_update and
\* propose_task_delete return the plain string "Task not found with ID: <id>",
\* without __ui__ and without a form id, and the get is the only request of
\* the invocation
C23_TaskNotFound ==
    (tool \in FetchingTools /\ pc = "done" /\ Succeeded
        /\ response.body.value = NullValue) =>
        /\ IsPlain(outcome)
        /\ outcome.value.s = <<"Task not found with ID: ", input.id>>
        /\ \A i \in 1..Len(outcome.value.s) : outcome.value.s[i] \notin FormIds
        /\ Len(sent) = 1
        /\ sent[1].body.path = "agent/tasks:get"

\* C23 witness: propose_task_delete asked for a task of another tenant, the
\* remote answered null, and the tool has returned
C23_Witness ==
    /\ tool = "propose_task_delete"
    /\ pc = "done"
    /\ Succeeded
    /\ response.body.value = NullValue
    /\ Stored(input.id)
    /\ IsPlain(outcome)

\* C24: for a non-empty remote list, list_tasks returns a TaskTable whose
\* tasks is the list the remote returned, element for element, and whose text
\* reports the list's length; for an empty list it returns the plain string
\* "No tasks found. The task list is empty." without __ui__
C24_ListResult ==
    (tool = "list_tasks" /\ pc = "done" /\ Succeeded) =>
        LET tasks == response.body.value
        IN  IF Len(tasks) = 0
            THEN /\ IsPlain(outcome)
                 /\ outcome.value.s = <<"No tasks found. The task list is empty.">>
            ELSE /\ IsJson(outcome)
                 /\ DOMAIN outcome.value.v = {"text", "__ui__"}
                 /\ outcome.value.v.__ui__.name = "TaskTable"
                 /\ DOMAIN outcome.value.v.__ui__.props = {"tasks"}
                 /\ Len(outcome.value.v.__ui__.props.tasks) = Len(tasks)
                 /\ \A i \in 1..Len(tasks) :
                        outcome.value.v.__ui__.props.tasks[i] = tasks[i]
                 /\ outcome.value.v.text = <<"Found ", ToString(Len(tasks)), " task(s).">>

\* C24 witness: the remote listed two tasks and list_tasks has returned a
\* table of two rows
C24_Witness ==
    /\ tool = "list_tasks"
    /\ pc = "done"
    /\ Succeeded
    /\ Len(response.body.value) = 2
    /\ IsJson(outcome)
    /\ Len(outcome.value.v.__ui__.props.tasks) = 2
    /\ outcome.value.v.__ui__.props.tasks[1] # outcome.value.v.__ui__.props.tasks[2]

\* The fields of a created task's card that the create request carries too
SentFields == {"title", "status", "label", "priority"}

\* C25: when create_task has returned a TaskCard the create mutation has
\* succeeded, isSaved is true, the card's _id is the id the remote returned
\* and its title, status, label and priority are the values sent in the
\* create request; when the request fails the tool returns a plain string, so
\* no card; and the form propose_task returns carries, for the same input,
\* the status, label and priority create_task would send
C25_CardMatchesSaved ==
    /\ (tool = "create_task" /\ pc = "done" /\ sent # <<>>) =>
        IF Succeeded
        THEN /\ IsJson(outcome)
             /\ sent[1].body.path = "agent/tasks:create"
             /\ outcome.value.v.__ui__.name = "TaskCard"
             /\ outcome.value.v.__ui__.props.isSaved = TRUE
             /\ outcome.value.v.__ui__.props.task._id = response.body.value
             /\ \A f \in SentFields :
                    outcome.value.v.__ui__.props.task[f] = sent[1].body.args[f]
        ELSE IsPlain(outcome)
    /\ (tool = "create_task" /\ pc = "done" /\ sent = <<>>) => IsPlain(outcome)
    /\ (tool = "propose_task" /\ pc = "done" /\ IsJson(outcome)) =>
        LET args == createTaskRequest(getContextFromRuntime(runtime), input).body.args
        IN  \A f \in SentFields :
                outcome.value.v.__ui__.props.initialValues[f] = args[f]

\* C25 witness: create_task was given a title only, the mutation succeeded,
\* and the card shows the returned id with the defaults that were sent
C25_Witness ==
    /\ tool = "create_task"
    /\ pc = "done"
    /\ Succeeded
    /\ input.status = Undefined
    /\ IsJson(outcome)
    /\ outcome.value.v.__ui__.props.task._id = response.body.value
    /\ outcome.value.v.__ui__.props.task.status = "todo"
    /\ sent[1].body.args.status = "todo"
    /\ outcome.value.v.__ui__.props.isSaved = TRUE

====
